---- MODULE Spec2Model ----
(***************************************************************************)
(* Model of the bookstore seeding routine (bookstore_app/seed.py) over the *)
(* schema of bookstore_app/models.py.  One run of seed() is a sequence of  *)
(* steps, one per statement; the storage backend is a transactional store  *)
(* with a committed state and the open session's uncommitted view.         *)
(***************************************************************************)
EXTENDS Integers, Sequences, FiniteSets, TLC

VARIABLES
    backend,      \* condition of the storage location, fixed for a behaviour
    committed,    \* the committed (durably visible) contents of both tables
    tx,           \* the session's uncommitted transaction view
    session,      \* "none" | "open" | "closed": the Session object of the run
    conn,         \* TRUE while the session holds a database connection
    pc,           \* position of the run inside seed()
    books,        \* local list `books` of seed()
    salespeople,  \* local list `salespeople` of seed()
    stdout,       \* lines printed by the run
    stream,       \* the random stream the run draws from
    run,          \* number of seed() calls started so far
    raisedAt,     \* source line whose statement raised (0: none)
    trace,        \* history: the operations the run has performed, in order
    preRun,       \* history: the committed contents when the run started
    countsAfter   \* history: <<#books, #salespeople>> after each completed run

vars == <<backend, committed, tx, session, conn, pc, books, salespeople,
          stdout, stream, run, raisedAt, trace, preRun, countsAfter>>

----------------------------------------------------------------------------
(* Bounds of the model *)

MaxRuns == 2
MaxPre == 2
MaxSeed == 1
MaxStride == 1

(* Constants of the program *)

NumBooks == 50
NumSalespeople == 20
CostLo == 5
CostHi == 35

----------------------------------------------------------------------------
(* Column values: every value carries its type, None is NULL *)

NULL == [type |-> "null"]
IntVal(n) == [type |-> "int", v |-> n]
StrVal(n) == [type |-> "str", v |-> n]

(* The schema *)

BookColumns == {"id", "title", "author", "publisher", "publish_date", "cost"}
SalespersonColumns == {"id", "name", "birthday", "last_clocked_in", "last_clocked_out"}
PrimaryKey == "id"

(* The declarative constructor: the keyword arguments become attributes,  *)
(* every other column stays None.                                          *)
Construct(columns, kwargs) ==
    [c \in columns |-> IF c \in DOMAIN kwargs THEN kwargs[c] ELSE NULL]

----------------------------------------------------------------------------
(* The generators.  A stream is the state of the random source of one run; *)
(* Draw(s, k) is its k-th raw draw.                                        *)

Streams == [seed : 0..MaxSeed, stride : 0..MaxStride]
Draw(s, k) == s.seed + k * s.stride

randint(a, b, r) == a + (r % (b - a + 1))
fake_name(r) == StrVal(r % 3)
fake_date_time(r) == [type |-> "datetime", day |-> r \div 2, sec |-> r % 2]
date(dt) == [type |-> "date", day |-> dt.day]

BookCostMutant(r) == randint(CostLo, CostHi + 1, r)
BookCost(r) == randint(CostLo, CostHi, r)

BookKwargsMutantNoPublisher(s, i) ==
    LET k == 5 * (i - 1) IN
    [title        |-> fake_name(Draw(s, k + 1)),
     author       |-> fake_name(Draw(s, k + 2)),
     publish_date |-> date(fake_date_time(Draw(s, k + 4))),
     cost         |-> IntVal(BookCost(Draw(s, k + 5)))]
BookKwargsMutantWithId(s, i) ==
    LET k == 5 * (i - 1) IN
    [id           |-> IntVal(1),
     title        |-> fake_name(Draw(s, k + 1)),
     author       |-> fake_name(Draw(s, k + 2)),
     publisher    |-> fake_name(Draw(s, k + 3)),
     publish_date |-> date(fake_date_time(Draw(s, k + 4))),
     cost         |-> IntVal(BookCost(Draw(s, k + 5)))]
BookKwargs(s, i) ==
    LET k == 5 * (i - 1) IN
    [title        |-> fake_name(Draw(s, k + 1)),
     author       |-> fake_name(Draw(s, k + 2)),
     publisher    |-> fake_name(Draw(s, k + 3)),
     publish_date |-> date(fake_date_time(Draw(s, k + 4))),
     cost         |-> IntVal(BookCost(Draw(s, k + 5)))]

SalespersonKwargs(s, i) ==
    LET k == 5 * NumBooks + 4 * (i - 1) IN
    [name             |-> fake_name(Draw(s, k + 1)),
     birthday         |-> date(fake_date_time(Draw(s, k + 2))),
     last_clocked_in  |-> fake_date_time(Draw(s, k + 3)),
     last_clocked_out |-> fake_date_time(Draw(s, k + 4))]

BooksListMutantShort(s) ==
    [i \in 1..(NumBooks - 1) |-> Construct(BookColumns, BookKwargs(s, i))]
BooksList(s) ==
    [i \in 1..NumBooks |-> Construct(BookColumns, BookKwargs(s, i))]

SalespeopleList(s) ==
    [i \in 1..NumSalespeople |-> Construct(SalespersonColumns, SalespersonKwargs(s, i))]

----------------------------------------------------------------------------
(* The storage backend *)

SetMax(S) == CHOOSE x \in S : \A y \in S : y <= x

(* The row id the backend gives a row inserted without one *)
NextRowId(table) ==
    IF table = {} THEN 1 ELSE SetMax({r[PrimaryKey].v : r \in table}) + 1

(* The row as stored; gen is history, the run that wrote the row *)
Stored(o, id, g) ==
    [c \in DOMAIN o \cup {"gen"} |->
        IF c = PrimaryKey THEN id ELSE IF c = "gen" THEN g ELSE o[c]]

(* One INSERT per object, in list order; a duplicate primary key fails the *)
(* whole statement.                                                        *)
RECURSIVE bulk_save_objects(_, _, _)
bulk_save_objects(table, objs, g) ==
    IF objs = <<>> THEN [ok |-> TRUE, rows |-> table]
    ELSE LET o == Head(objs)
             id == IF o[PrimaryKey] = NULL THEN IntVal(NextRowId(table))
                   ELSE o[PrimaryKey]
         IN IF \E r \in table : r[PrimaryKey] = id
            THEN [ok |-> FALSE, rows |-> table]
            ELSE bulk_save_objects(table \cup {Stored(o, id, g)}, Tail(objs), g)

NoTx == [active |-> FALSE, books |-> {}, salespeople |-> {}]

(* The transaction view a statement works on: the open one, or a new one   *)
(* begun on the committed contents.                                        *)
Begin == IF tx.active THEN tx
         ELSE [active |-> TRUE, books |-> committed.books,
               salespeople |-> committed.salespeople]

Reachable == backend # "unreachable"
HasBooksTable == backend \in {"ok", "no_salespeople_table"}
HasSalespeopleTable == backend = "ok"

----------------------------------------------------------------------------
(* Rows that may be in the tables before any run: no column but id is      *)
(* constrained.                                                            *)

OldBook(i) ==
    [id |-> IntVal(i), title |-> NULL, author |-> StrVal(i), publisher |-> NULL,
     publish_date |-> NULL, cost |-> IntVal(CostHi + i), gen |-> 0]
OldSalesperson(i) ==
    [id |-> IntVal(i), name |-> StrVal(i), birthday |-> NULL,
     last_clocked_in |-> NULL, last_clocked_out |-> NULL, gen |-> 0]

Init ==
    /\ backend \in {"ok", "unreachable", "no_tables", "no_salespeople_table"}
    /\ \E nb \in 0..MaxPre, ns \in 0..MaxPre :
          committed = [books |-> IF HasBooksTable
                                 THEN {OldBook(i) : i \in 1..nb} ELSE {},
                       salespeople |-> IF HasSalespeopleTable
                                       THEN {OldSalesperson(i) : i \in 1..ns} ELSE {}]
    /\ tx = NoTx
    /\ session = "none"
    /\ conn = FALSE
    /\ pc = "idle"
    /\ books = <<>>
    /\ salespeople = <<>>
    /\ stdout = <<>>
    /\ stream = [seed |-> 0, stride |-> 0]
    /\ run = 0
    /\ raisedAt = 0
    /\ trace = <<>>
    /\ preRun = committed
    /\ countsAfter = <<>>

----------------------------------------------------------------------------
(* The steps of seed() *)

(* seed() is called: a fresh frame, a fresh random stream.  A session left *)
(* open by a run that raised is dropped with its uncommitted work.         *)
Call ==
    /\ pc \in {"idle", "done", "raised"}
    /\ run < MaxRuns
    /\ run' = run + 1
    /\ stream' \in Streams
    /\ pc' = "l12"
    /\ tx' = NoTx
    /\ session' = "none"
    /\ conn' = FALSE
    /\ books' = <<>>
    /\ salespeople' = <<>>
    /\ stdout' = <<>>
    /\ raisedAt' = 0
    /\ trace' = <<>>
    /\ preRun' = committed
    /\ UNCHANGED <<backend, committed, countsAfter>>

(* lines 12-13: the engine and the session are created, nothing connects *)
OpenSession ==
    /\ pc = "l12"
    /\ session' = "open"
    /\ trace' = Append(trace, "open")
    /\ pc' = "l15"
    /\ UNCHANGED <<backend, committed, tx, conn, books, salespeople, stdout,
                   stream, run, raisedAt, preRun, countsAfter>>

(* line 15: session.query(Book).delete() *)
DeleteBooksMutantAutocommit ==
    /\ pc = "l15"
    /\ Reachable /\ HasBooksTable
    /\ conn' = TRUE
    /\ tx' = [Begin EXCEPT !.books = {}]
    /\ committed' = [committed EXCEPT !.books = {}]
    /\ trace' = Append(trace, "delete_books")
    /\ pc' = "l16"
    /\ UNCHANGED <<backend, session, books, salespeople, stdout, stream,
                   run, raisedAt, preRun, countsAfter>>
DeleteBooksMutantSwallow ==
    /\ pc = "l15"
    /\ conn' = Reachable
    /\ tx' = IF Reachable /\ HasBooksTable THEN [Begin EXCEPT !.books = {}] ELSE tx
    /\ trace' = Append(trace, "delete_books")
    /\ pc' = "l16"
    /\ UNCHANGED <<backend, committed, session, books, salespeople, stdout,
                   stream, run, raisedAt, preRun, countsAfter>>
DeleteBooksMutantSkip ==
    /\ pc = "l15"
    /\ Reachable /\ HasBooksTable
    /\ conn' = TRUE
    /\ tx' = Begin
    /\ trace' = Append(trace, "delete_books")
    /\ pc' = "l16"
    /\ UNCHANGED <<backend, committed, session, books, salespeople, stdout,
                   stream, run, raisedAt, preRun, countsAfter>>
DeleteBooks ==
    /\ pc = "l15"
    /\ \/ /\ Reachable /\ HasBooksTable
          /\ conn' = TRUE
          /\ tx' = [Begin EXCEPT !.books = {}]
          /\ trace' = Append(trace, "delete_books")
          /\ pc' = "l16"
          /\ UNCHANGED raisedAt
       \/ /\ ~(Reachable /\ HasBooksTable)
          /\ conn' = Reachable
          /\ pc' = "raised"
          /\ raisedAt' = 15
          /\ UNCHANGED <<tx, trace>>
    /\ UNCHANGED <<backend, committed, session, books, salespeople, stdout,
                   stream, run, preRun, countsAfter>>

(* line 16: session.query(Salesperson).delete() *)
DeleteSalespeopleMutantSkip ==
    /\ pc = "l16"
    /\ Reachable /\ HasSalespeopleTable
    /\ conn' = TRUE
    /\ tx' = Begin
    /\ trace' = Append(trace, "delete_salespeople")
    /\ pc' = "l18"
    /\ UNCHANGED <<backend, committed, session, books, salespeople, stdout,
                   stream, run, raisedAt, preRun, countsAfter>>
DeleteSalespeople ==
    /\ pc = "l16"
    /\ \/ /\ Reachable /\ HasSalespeopleTable
          /\ conn' = TRUE
          /\ tx' = [Begin EXCEPT !.salespeople = {}]
          /\ trace' = Append(trace, "delete_salespeople")
          /\ pc' = "l18"
          /\ UNCHANGED raisedAt
       \/ /\ ~(Reachable /\ HasSalespeopleTable)
          /\ conn' = (conn \/ Reachable)
          /\ pc' = "raised"
          /\ raisedAt' = 16
          /\ UNCHANGED <<tx, trace>>
    /\ UNCHANGED <<backend, committed, session, books, salespeople, stdout,
                   stream, run, preRun, countsAfter>>

(* lines 18-30: the progress line, the generator, the list of 50 books *)
GenerateBooks ==
    /\ pc = "l18"
    /\ stdout' = Append(stdout, "Seeding books...")
    /\ books' = BooksList(stream)
    /\ trace' = Append(trace, "generate_books")
    /\ pc' = "l32"
    /\ UNCHANGED <<backend, committed, tx, session, conn, salespeople, stream,
                   run, raisedAt, preRun, countsAfter>>

(* line 32: session.bulk_save_objects(books) *)
InsertBooksMutantCommit ==
    /\ pc = "l32"
    /\ Reachable /\ HasBooksTable
    /\ bulk_save_objects(Begin.books, books, run).ok
    /\ committed' = [books |-> bulk_save_objects(Begin.books, books, run).rows,
                     salespeople |-> Begin.salespeople]
    /\ tx' = NoTx
    /\ conn' = FALSE
    /\ trace' = trace \o <<"insert_books", "commit">>
    /\ pc' = "l34"
    /\ UNCHANGED <<backend, session, books, salespeople, stdout,
                   stream, run, raisedAt, preRun, countsAfter>>
InsertBooks ==
    /\ pc = "l32"
    /\ LET res == bulk_save_objects(Begin.books, books, run) IN
       \/ /\ Reachable /\ HasBooksTable /\ res.ok
          /\ tx' = [Begin EXCEPT !.books = res.rows]
          /\ conn' = TRUE
          /\ trace' = Append(trace, "insert_books")
          /\ pc' = "l34"
          /\ UNCHANGED raisedAt
       \/ /\ ~(Reachable /\ HasBooksTable /\ res.ok)
          /\ conn' = (conn \/ Reachable)
          /\ pc' = "raised"
          /\ raisedAt' = 32
          /\ UNCHANGED <<tx, trace>>
    /\ UNCHANGED <<backend, committed, session, books, salespeople, stdout,
                   stream, run, preRun, countsAfter>>

(* lines 34-43: the progress line, the list of 20 salespeople *)
GenerateSalespeople ==
    /\ pc = "l34"
    /\ stdout' = Append(stdout, "Seeding salespeople...")
    /\ salespeople' = SalespeopleList(stream)
    /\ trace' = Append(trace, "generate_salespeople")
    /\ pc' = "l45"
    /\ UNCHANGED <<backend, committed, tx, session, conn, books, stream,
                   run, raisedAt, preRun, countsAfter>>

(* line 45: session.bulk_save_objects(salespeople) *)
InsertSalespeople ==
    /\ pc = "l45"
    /\ LET res == bulk_save_objects(Begin.salespeople, salespeople, run) IN
       \/ /\ Reachable /\ HasSalespeopleTable /\ res.ok
          /\ tx' = [Begin EXCEPT !.salespeople = res.rows]
          /\ conn' = TRUE
          /\ trace' = Append(trace, "insert_salespeople")
          /\ pc' = "l47"
          /\ UNCHANGED raisedAt
       \/ /\ ~(Reachable /\ HasSalespeopleTable /\ res.ok)
          /\ conn' = (conn \/ Reachable)
          /\ pc' = "raised"
          /\ raisedAt' = 45
          /\ UNCHANGED <<tx, trace>>
    /\ UNCHANGED <<backend, committed, session, books, salespeople, stdout,
                   stream, run, preRun, countsAfter>>

(* line 47: session.commit(): the transaction view becomes the committed   *)
(* contents in one step and the connection goes back to the pool.          *)
Commit ==
    /\ pc = "l47"
    /\ \/ /\ Reachable
          /\ committed' = IF tx.active
                          THEN [books |-> tx.books, salespeople |-> tx.salespeople]
                          ELSE committed
          /\ tx' = NoTx
          /\ conn' = FALSE
          /\ trace' = Append(trace, "commit")
          /\ pc' = "l48"
          /\ UNCHANGED raisedAt
       \/ /\ ~Reachable
          /\ pc' = "raised"
          /\ raisedAt' = 47
          /\ UNCHANGED <<committed, tx, conn, trace>>
    /\ UNCHANGED <<backend, session, books, salespeople, stdout, stream, run,
                   preRun, countsAfter>>

(* line 48: session.close(), then seed() returns *)
Close ==
    /\ pc = "l48"
    /\ session' = "closed"
    /\ conn' = FALSE
    /\ tx' = NoTx
    /\ trace' = Append(trace, "close")
    /\ pc' = "done"
    /\ countsAfter' = Append(countsAfter, <<Cardinality(committed.books),
                                            Cardinality(committed.salespeople)>>)
    /\ UNCHANGED <<backend, committed, books, salespeople, stdout, stream, run,
                   raisedAt, preRun>>

(* A storage statement fails for a passing reason (a locked or full        *)
(* database, an I/O error): it raises and nothing of it is applied.        *)
StorageLines == [l15 |-> 15, l16 |-> 16, l32 |-> 32, l45 |-> 45, l47 |-> 47]
StorageFault ==
    /\ pc \in DOMAIN StorageLines
    /\ raisedAt' = StorageLines[pc]
    /\ pc' = "raised"
    /\ conn' \in {conn, Reachable}
    /\ UNCHANGED <<backend, committed, tx, session, books, salespeople, stdout,
                   stream, run, trace, preRun, countsAfter>>

Next ==
    \/ Call
    \/ OpenSession
    \/ DeleteBooks
    \/ DeleteSalespeople
    \/ GenerateBooks
    \/ InsertBooks
    \/ GenerateSalespeople
    \/ InsertSalespeople
    \/ Commit
    \/ Close
    \/ StorageFault

Spec == Init /\ [][Next]_vars

----------------------------------------------------------------------------
(* Properties *)

Range(f) == {f[i] : i \in DOMAIN f}
IsPrefix(p, q) == Len(p) <= Len(q) /\ \A i \in 1..Len(p) : p[i] = q[i]
UniqueIds(table) ==
    \A r1, r2 \in table : r1[PrimaryKey] = r2[PrimaryKey] => r1 = r2
Populated(row, columns) ==
    \A c \in columns \ {PrimaryKey} : row[c] # NULL
InCostRange(val) == val.type = "int" /\ 5 <= val.v /\ val.v <= 35

(* C1: whatever the tables held before, once seed() has returned the       *)
(* committed store holds exactly 50 Book rows and 20 Salesperson rows.     *)
C1_ExactCounts ==
    pc = "done" =>
        /\ Cardinality(committed.books) = 50
        /\ Cardinality(committed.salespeople) = 20

C1_Witness ==
    /\ pc = "done"
    /\ \E r \in preRun.books : r.gen = 0
    /\ \E r \in preRun.salespeople : r.gen = 0

(* C2: once seed() has returned, no row that was in either table before    *)
(* the run remains; every row present was written by this run.             *)
C2_NoResidualRows ==
    pc = "done" =>
        /\ committed.books \cap preRun.books = {}
        /\ committed.salespeople \cap preRun.salespeople = {}
        /\ \A r \in committed.books \cup committed.salespeople : r.gen = run

C2_Witness ==
    /\ pc = "done"
    /\ preRun.books # {}
    /\ preRun.salespeople # {}
    /\ committed # preRun

(* C3: the row counts after every completed run are the same, 50 and 20:   *)
(* a second run does not add to the counts of the first.                   *)
C3_SameCountsEachRun ==
    \A i, j \in DOMAIN countsAfter :
        countsAfter[i] = countsAfter[j] /\ countsAfter[i] = <<50, 20>>

C3_Witness ==
    /\ pc = "done"
    /\ run = 2
    /\ Len(countsAfter) = 2

(* C4: after a completed run no two rows of a table share an id, the ids   *)
(* are integers, and the objects the seeder builds carry no id of their    *)
(* own: the backend assigns it.                                            *)
C4_UniqueBackendIds ==
    /\ Len(countsAfter) > 0 =>
          /\ UniqueIds(committed.books)
          /\ UniqueIds(committed.salespeople)
          /\ \A r \in committed.books \cup committed.salespeople :
                r[PrimaryKey].type = "int"
    /\ \A i \in DOMAIN books : books[i][PrimaryKey] = NULL
    /\ \A i \in DOMAIN salespeople : salespeople[i][PrimaryKey] = NULL

C4_Witness ==
    /\ pc = "done"
    /\ run = 2
    /\ Len(books) = 50
    /\ {r[PrimaryKey].v : r \in committed.books} = 1..50

(* C5: every Book the seeder builds, and so every Book row in the store    *)
(* after a completed run, has an integer cost between 5 and 35 inclusive.  *)
C5_CostInRange ==
    /\ \A i \in DOMAIN books : InCostRange(books[i].cost)
    /\ pc = "done" => \A r \in committed.books : InCostRange(r.cost)

C5_Witness ==
    /\ pc = "done"
    /\ \E r \in preRun.books : ~InCostRange(r.cost)
    /\ \E r \in committed.books : r.cost.v = 5
    /\ \E r \in committed.books : r.cost.v = 35

(* C6: when the database cannot be opened or its tables do not exist, the  *)
(* run gets no further than its first storage statement (line 15), which   *)
(* raises; it never commits and never returns normally.                    *)
C6_UnusableBackendRaises ==
    backend \in {"unreachable", "no_tables"} =>
        /\ pc \in {"idle", "l12", "l15", "raised"}
        /\ pc = "raised" => raisedAt = 15
        /\ "commit" \notin Range(trace)
        /\ countsAfter = <<>>
        /\ committed = preRun

C6_Witness ==
    /\ backend \in {"unreachable", "no_tables"}
    /\ pc = "raised"
    /\ raisedAt = 15
    /\ session = "open"

(* C7: the operations of a run are always an initial part of the fixed     *)
(* order open, delete books, delete salespeople, books, salespeople,       *)
(* commit, close, and a run that returns has performed all of it: one      *)
(* commit, after both inserts, and the close after the commit.             *)
SeedOrder ==
    <<"open", "delete_books", "delete_salespeople", "generate_books",
      "insert_books", "generate_salespeople", "insert_salespeople",
      "commit", "close">>
C7_LinearOrder ==
    /\ IsPrefix(trace, SeedOrder)
    /\ pc = "done" => trace = SeedOrder

C7_Witness ==
    /\ pc = "done"
    /\ trace = SeedOrder
    /\ Cardinality({i \in DOMAIN trace : trace[i] = "commit"}) = 1

(* C8: however a run ends, by returning or by raising, its session has     *)
(* been closed and holds no connection.                                    *)
C8_ClosedOnEveryExit ==
    pc \in {"done", "raised"} => session = "closed" /\ ~conn

(* C9: after a completed run every stored row has all its columns other    *)
(* than id set, and the seeder's keyword arguments are exactly the non-id  *)
(* columns of the schema.                                                  *)
C9_FullyPopulated ==
    /\ pc = "done" =>
          /\ \A r \in committed.books : Populated(r, BookColumns)
          /\ \A r \in committed.salespeople : Populated(r, SalespersonColumns)
    /\ pc # "idle" =>
          /\ DOMAIN BookKwargs(stream, 1) = BookColumns \ {PrimaryKey}
          /\ DOMAIN SalespersonKwargs(stream, 1) = SalespersonColumns \ {PrimaryKey}

C9_Witness ==
    /\ pc = "done"
    /\ \E r \in preRun.books : ~Populated(r, BookColumns)
    /\ \E r \in preRun.salespeople : ~Populated(r, SalespersonColumns)
    /\ committed.books # {}

(* C10: during and after a run the committed store is either what it was   *)
(* when the run started or, once the commit has happened, the complete new *)
(* data set; a run that stops before its commit leaves it unchanged.       *)
CompleteNewDataSet ==
    /\ Cardinality(committed.books) = 50
    /\ Cardinality(committed.salespeople) = 20
    /\ \A r \in committed.books \cup committed.salespeople : r.gen = run
C10_AtomicReset ==
    pc # "idle" =>
        /\ committed = preRun \/ CompleteNewDataSet
        /\ "commit" \notin Range(trace) => committed = preRun

C10_Witness ==
    /\ pc = "raised"
    /\ raisedAt = 45
    /\ preRun.books # {}
    /\ preRun.salespeople # {}
    /\ tx.active
    /\ tx.salespeople = {}
    /\ Cardinality(tx.books) = 50
    /\ committed = preRun

====
